---- MODULE Spec2Model ----
(***************************************************************************)
(* Who Dat Dev? Akinator API (src/main.py): the FastAPI boundary layer     *)
(* that rehydrates one Akinator object per request from a row of the       *)
(* game_sessions table, applies one operation and writes the row back.     *)
(*                                                                         *)
(* main.py is modelled from its source.  The Akinator class it imports     *)
(* (`from algorithm import Akinator`) is not part of src/; its operations  *)
(* are modelled from spec.md sections 3, 4 and 8.                          *)
(*                                                                         *)
(* Weights and scores are real numbers in the program; the model keeps     *)
(* them as integers in units of 1/4, which is exact for the four accepted  *)
(* answer weights 0.0, 0.25, 0.75, 1.0.                                    *)
(***************************************************************************)
EXTENDS Integers, Sequences, FiniteSets, TLC

VARIABLES
    catalog,    \* the dataset files the process was deployed with
    started,    \* startup_event has completed (DB_POOL is set)
    db,         \* table game_sessions: session_id -> akinator_state blob
    nextSid,    \* number of uuid4() session ids handed out so far
    req,        \* in-flight requests: slot -> handler position and locals
    resp,       \* the last HTTP response sent
    applied,    \* history: session_id -> operations whose row write it holds
    accepted,   \* history: session_id -> operations answered with success
    finished,   \* history: session ids whose row a confirmed guess deleted
    nReq        \* number of requests received so far

vars == <<catalog, started, db, nextSid, req, resp, applied, accepted, finished, nReq>>

----------------------------------------------------------------------------
(* Bounds of the model *)

MaxSessions == 2
MaxSlots == 2
MaxRequests == 4

Slots == 1..MaxSlots
SessionIds == 1..MaxSessions

----------------------------------------------------------------------------
(* Small helpers *)

Abs(x) == IF x < 0 THEN -x ELSE x

Range(s) == {s[i] : i \in 1..Len(s)}

RECURSIVE SortedSeq(_)
SortedSeq(S) ==
    IF S = {} THEN <<>>
    ELSE LET m == CHOOSE x \in S : \A y \in S : x <= y
         IN <<m>> \o SortedSeq(S \ {m})

NoDuplicates(s) == \A i, j \in 1..Len(s) : s[i] = s[j] => i = j

----------------------------------------------------------------------------
(* CatalogStore (spec.md 3, 4.1): the two dataset files.  The entities and *)
(* questions are the spec's scenario catalog (section 8) grown to three    *)
(* entities and two questions.                                             *)

AttributeKeys == {"tall", "coder"}

GoodEntities ==
    << [id |-> 1, name |-> "A", attrs |-> [tall |-> 4, coder |-> 0]],
       [id |-> 2, name |-> "B", attrs |-> [tall |-> 0, coder |-> 4]],
       [id |-> 3, name |-> "C", attrs |-> [tall |-> 1, coder |-> 4]] >>

GoodQuestions ==
    << [id |-> 1, key |-> "tall"],
       [id |-> 2, key |-> "coder"] >>

GoodCatalog == [entities |-> GoodEntities, questions |-> GoodQuestions]

\* a question whose attribute key no entity has
OrphanCatalog ==
    [entities |-> GoodEntities,
     questions |-> GoodQuestions \o << [id |-> 3, key |-> "wings"] >>]

\* two entities with the same identifier
DuplicateCatalog ==
    [entities |-> GoodEntities \o
                  << [id |-> 1, name |-> "D", attrs |-> [tall |-> 0, coder |-> 0]] >>,
     questions |-> GoodQuestions]

Catalogs == {GoodCatalog, OrphanCatalog, DuplicateCatalog}

\* CatalogStore.load's validation: DatasetError unless this holds
ValidCatalog(c) ==
    /\ NoDuplicates([i \in 1..Len(c.entities) |-> c.entities[i].id])
    /\ NoDuplicates([i \in 1..Len(c.questions) |-> c.questions[i].id])
    /\ \A i \in 1..Len(c.questions) :
         \E j \in 1..Len(c.entities) :
            c.questions[i].key \in DOMAIN c.entities[j].attrs

EntityIds == {catalog.entities[i].id : i \in 1..Len(catalog.entities)}
QuestionIds == {catalog.questions[i].id : i \in 1..Len(catalog.questions)}
EntityNames == {catalog.entities[i].name : i \in 1..Len(catalog.entities)}

EntityOf(name) ==
    (CHOOSE i \in 1..Len(catalog.entities) : catalog.entities[i].name = name)
EntityIdOf(name) == catalog.entities[EntityOf(name)].id
EntityById(e) ==
    catalog.entities[CHOOSE i \in 1..Len(catalog.entities) : catalog.entities[i].id = e]
QuestionById(q) ==
    catalog.questions[CHOOSE i \in 1..Len(catalog.questions) : catalog.questions[i].id = q]
QuestionIdOf(key) ==
    catalog.questions[CHOOSE i \in 1..Len(catalog.questions) :
                          catalog.questions[i].key = key].id

AttributeWeight(e, key) == EntityById(e).attrs[key]

----------------------------------------------------------------------------
(* Configuration of the GuessController (spec.md 4.4), in units of 1/4.    *)

marginThreshold == 8    \* minimum score gap to stop asking: 2.0
maxTurns == 2           \* hard cap on questions asked
topN == 5               \* _get_top_candidates(5)

----------------------------------------------------------------------------
(* GameState (spec.md 3): scores, asked, excludedEntities, turnCount.      *)

\* ScoreModel.initialize: the baseline score of every entity is 0
NewGameState ==
    [scores |-> [e \in EntityIds |-> 0],
     asked |-> {},
     excludedEntities |-> {},
     turnCount |-> 0]

\* the contribution of one answer at distance d = |weight - answer|:
\* score += 1 - 2*distance, so exact agreement gives +1 and distance 1 gives -1
Contribution(d) == 4 - 2 * d

\* ScoreModel.update: excluded entities are skipped entirely
Update(scores, excluded, key, answerWeight) ==
    [e \in DOMAIN scores |->
        IF e \in excluded THEN scores[e]
        ELSE scores[e] + Contribution(Abs(AttributeWeight(e, key) - answerWeight))]

\* ScoreModel.rank: descending by score, ties broken by entity identifier
Before(scores, e, f) ==
    \/ scores[e] > scores[f]
    \/ scores[e] = scores[f] /\ e < f

RECURSIVE RankOf(_, _)
RankOf(scores, S) ==
    IF S = {} THEN <<>>
    ELSE LET top == CHOOSE e \in S : \A f \in S \ {e} : Before(scores, e, f)
         IN <<top>> \o RankOf(scores, S \ {top})

Rank(st, n) ==
    LET all == RankOf(st.scores, DOMAIN st.scores \ st.excludedEntities)
    IN [i \in 1..(IF Len(all) < n THEN Len(all) ELSE n) |->
            [id |-> all[i], score |-> st.scores[all[i]]]]

\* _get_top_candidates(n): the names and scores of the first n of the ranking
TopCandidates(st, n) ==
    LET r == Rank(st, n)
    IN [i \in 1..Len(r) |-> [name |-> EntityById(r[i].id).name, score |-> r[i].score]]

\* QuestionSelector.next (spec.md 4.3): among the unasked questions that
\* still separate the remaining candidates, the one with the widest split of
\* attribute weights; ties go to the lowest question identifier; 0 is none
Spread(st, q) ==
    LET cand == DOMAIN st.scores \ st.excludedEntities
        ws == {AttributeWeight(e, QuestionById(q).key) : e \in cand}
    IN IF ws = {} THEN 0
       ELSE (CHOOSE hi \in ws : \A w \in ws : w <= hi)
            - (CHOOSE lo \in ws : \A w \in ws : lo <= w)

Eligible(st) == {q \in QuestionIds \ st.asked : Spread(st, q) > 0}

NextQuestion(st) ==
    IF Eligible(st) = {} THEN 0
    ELSE CHOOSE q \in Eligible(st) :
            \A p \in Eligible(st) \ {q} :
                \/ Spread(st, q) > Spread(st, p)
                \/ Spread(st, q) = Spread(st, p) /\ q < p

\* GuessController.shouldGuess (spec.md 4.4): three independent triggers
ShouldGuess(st) ==
    LET r == Rank(st, 2)
    IN \/ Len(r) >= 2 /\ r[1].score - r[2].score >= marginThreshold
       \/ NextQuestion(st) = 0
       \/ st.turnCount >= maxTurns

\* what the core returns after an operation: the exhaustion outcome, a guess
\* or the next question
GameResponse(st) ==
    IF Rank(st, 1) = <<>>
    THEN [status |-> "no_candidates", guess |-> "", question |-> "",
          top_candidates |-> <<>>]
    ELSE IF ShouldGuess(st)
    THEN [status |-> "guess", guess |-> EntityById(Rank(st, 1)[1].id).name,
          question |-> "", top_candidates |-> TopCandidates(st, topN)]
    ELSE [status |-> "question", guess |-> "",
          question |-> QuestionById(NextQuestion(st)).key,
          top_candidates |-> <<>>]

\* Akinator.process_answer(attribute_key, weight)
process_answer(st, key, answerWeight) ==
    [scores |-> Update(st.scores, st.excludedEntities, key, answerWeight),
     asked |-> st.asked \cup {QuestionIdOf(key)},
     excludedEntities |-> st.excludedEntities,
     turnCount |-> st.turnCount + 1]

\* Akinator.process_mistaken_guess(name): GuessController.reject
process_mistaken_guess(st, name) ==
    [st EXCEPT !.excludedEntities = @ \cup {EntityIdOf(name)}]

----------------------------------------------------------------------------
(* StateCodec (spec.md 4.5) and the JSON text of the row.                  *)

\* Akinator.get_state: the flat record; sets become sorted lists, the score
\* map a list of (entity, score) pairs
get_state(st) ==
    LET ids == SortedSeq(DOMAIN st.scores)
    IN [scores |-> [i \in 1..Len(ids) |-> <<ids[i], st.scores[ids[i]]>>],
        asked |-> SortedSeq(st.asked),
        excluded |-> SortedSeq(st.excludedEntities),
        turn_count |-> st.turnCount]

\* json.dumps: the object's members, in order
JsonDumps(d) ==
    << <<"scores", d.scores>>, <<"asked", d.asked>>,
       <<"excluded", d.excluded>>, <<"turn_count", d.turn_count>> >>

\* json.loads: the dict of the members (the last of a repeated key wins)
JsonLoads(blob) ==
    [k \in {blob[i][1] : i \in 1..Len(blob)} |->
        blob[CHOOSE i \in 1..Len(blob) :
                /\ blob[i][1] = k
                /\ \A j \in (i+1)..Len(blob) : blob[j][1] # k][2]]

\* Akinator._load_state raises StateCorruptError unless this holds
LoadOk(d) ==
    /\ {"scores", "asked", "excluded", "turn_count"} \subseteq DOMAIN d
    /\ NoDuplicates([i \in 1..Len(d.scores) |-> d.scores[i][1]])
    /\ {d.scores[i][1] : i \in 1..Len(d.scores)} \subseteq EntityIds
    /\ Range(d.excluded) \subseteq EntityIds
    /\ Range(d.asked) \subseteq QuestionIds
    /\ d.turn_count >= 0

\* Akinator._load_state: the GameState of a flat record
LoadState(d) ==
    [scores |-> [e \in {d.scores[i][1] : i \in 1..Len(d.scores)} |->
                    d.scores[CHOOSE i \in 1..Len(d.scores) : d.scores[i][1] = e][2]],
     asked |-> Range(d.asked),
     excludedEntities |-> Range(d.excluded),
     turnCount |-> d.turn_count]

----------------------------------------------------------------------------
(* src/main.py: payloads, responses and the game_sessions table.           *)

\* AnswerPayload.answer as clients send it
Answers == {"yes", "probably no", "Yes", "maybe"}

\* str.lower() on the answers above
Lower(s) == IF s = "Yes" THEN "yes" ELSE s

\* valid_answers with a fifth, neutral level
valid_answers_lenient ==
    ("no" :> 0) @@ ("probably no" :> 1) @@ ("maybe" :> 2) @@ ("probably yes" :> 3)
    @@ ("yes" :> 4)

\* valid_answers with the scale upside down
valid_answers_inverted ==
    ("no" :> 4) @@ ("probably no" :> 3) @@ ("probably yes" :> 1) @@ ("yes" :> 0)

\* valid_answers of submit_answer, in units of 1/4
valid_answers ==
    ("no" :> 0) @@ ("probably no" :> 1) @@ ("probably yes" :> 3) @@ ("yes" :> 4)

\* a request is served by the first free slot
FreeSlot(r) == req[r].pc = "idle" /\ \A q \in 1..(r-1) : req[q].pc # "idle"

NoState == [scores |-> <<>>, asked |-> {}, excludedEntities |-> {}, turnCount |-> 0]
NoOp == [op |-> "none", key |-> "", weight |-> 0, name |-> ""]

ErrorBody == [status |-> "error", guess |-> "", question |-> "", top_candidates |-> <<>>]
WelcomeBody == [status |-> "welcome", guess |-> "", question |-> "", top_candidates |-> <<>>]

IdleReq == [pc |-> "idle", kind |-> "none", sid |-> 0, inst |-> NoState, body |-> ErrorBody,
            op |-> NoOp, base |-> <<>>, code |-> 0]

\* a handler that raised HTTPException(code): the response has not left yet
Raised(code, sid, kind) ==
    [pc |-> "return", kind |-> kind, sid |-> sid, inst |-> NoState, body |-> ErrorBody,
     op |-> NoOp, base |-> <<>>, code |-> code]

\* a response: the HTTP status code, the session it names, its JSON content,
\* and the endpoint that sent it
Response(code, sid, body, kind) == [code |-> code, sid |-> sid, body |-> body, kind |-> kind]

\* INSERT INTO game_sessions (session_id, akinator_state, last_accessed)
InsertRow(table, sid, blob) ==
    [s \in DOMAIN table \cup {sid} |-> IF s = sid THEN blob ELSE table[s]]

\* the UPDATE never executed
UpdateRowSkipped(table, sid, blob) == table

\* the UPDATE without its WHERE clause
UpdateRowAll(table, sid, blob) == [s \in DOMAIN table |-> blob]

\* UPDATE game_sessions SET akinator_state = $1 WHERE session_id = $2
UpdateRow(table, sid, blob) ==
    IF sid \in DOMAIN table THEN [table EXCEPT ![sid] = blob] ELSE table

\* the DELETE never executed
DeleteRowSkipped(table, sid) == table

\* DELETE FROM game_sessions WHERE session_id = $1
DeleteRow(table, sid) == [s \in DOMAIN table \ {sid} |-> table[s]]

\* a handler that fails on a response without a guess or a question
HandlerReturnOrFail(sid, body, kind) ==
    IF body.status = "no_candidates"
    THEN [code |-> 500, sid |-> sid, body |-> ErrorBody, kind |-> kind]
    ELSE [code |-> 200, sid |-> sid, body |-> body, kind |-> kind]

\* return JSONResponse(content={"session_id": ..., **game_state_response})
HandlerReturn(sid, body, kind) == Response(200, sid, body, kind)

\* the blob save_akinator_state and start_game_session write
StateJson(st) == JsonDumps(get_state(st))

\* get_akinator_instance opening a fresh game for a session without a row
get_akinator_instance_creating(sid) ==
    IF sid \notin DOMAIN db
    THEN IF ValidCatalog(catalog) THEN [code |-> 200, inst |-> NewGameState]
         ELSE [code |-> 404, inst |-> NoState]
    ELSE LET d == JsonLoads(db[sid])
         IN IF ValidCatalog(catalog) /\ LoadOk(d)
            THEN [code |-> 200, inst |-> LoadState(d)]
            ELSE [code |-> 500, inst |-> NoState]

\* get_akinator_instance falling back to a fresh game when the row does not load
get_akinator_instance_defaulting(sid) ==
    IF sid \notin DOMAIN db THEN [code |-> 404, inst |-> NoState]
    ELSE LET d == JsonLoads(db[sid])
         IN IF ValidCatalog(catalog) /\ LoadOk(d)
            THEN [code |-> 200, inst |-> LoadState(d)]
            ELSE [code |-> 200, inst |-> NewGameState]

\* get_akinator_instance: 404 without a row, 500 when the row does not load
get_akinator_instance(sid) ==
    IF sid \notin DOMAIN db THEN [code |-> 404, inst |-> NoState]
    ELSE LET d == JsonLoads(db[sid])
         IN IF ValidCatalog(catalog) /\ LoadOk(d)
            THEN [code |-> 200, inst |-> LoadState(d)]
            ELSE [code |-> 500, inst |-> NoState]

\* the check of submit_answer on payload.answer
AnswerAccepted(answer) == Lower(answer) \in DOMAIN valid_answers

----------------------------------------------------------------------------
(* The state after construction and the handlers.                          *)

Init ==
    /\ catalog \in Catalogs
    /\ started = FALSE
    /\ db = <<>>
    /\ nextSid = 0
    /\ req = [r \in Slots |-> IdleReq]
    /\ resp = Response(0, 0, ErrorBody, "none")
    /\ applied = [s \in SessionIds |-> <<>>]
    /\ accepted = [s \in SessionIds |-> <<>>]
    /\ finished = {}
    /\ nReq = 0

\* startup_event: only the database pool is set up
startup_event ==
    /\ ~started
    /\ started' = TRUE
    /\ UNCHANGED <<catalog, db, nextSid, req, resp, applied, accepted, finished, nReq>>

\* GET /
root ==
    /\ started
    /\ resp' = Response(200, 0, WelcomeBody, "root")
    /\ UNCHANGED <<catalog, started, db, nextSid, req, applied, accepted, finished, nReq>>

\* POST /start_game up to the INSERT: the session id is drawn and the
\* game is built; a dataset that does not load raises 500
start_game_session(r) ==
    /\ started
    /\ FreeSlot(r)
    /\ nextSid < MaxSessions
    /\ nReq < MaxRequests
    /\ nReq' = nReq + 1
    /\ nextSid' = nextSid + 1
    /\ IF ~ValidCatalog(catalog)
       THEN req' = [req EXCEPT ![r] = Raised(500, 0, "start")]
       ELSE req' = [req EXCEPT ![r] =
                [pc |-> "insert", kind |-> "start", sid |-> nextSid + 1,
                 inst |-> NewGameState, body |-> GameResponse(NewGameState),
                 op |-> NoOp, base |-> <<>>, code |-> 200]]
    /\ UNCHANGED <<catalog, started, db, resp, applied, accepted, finished>>

\* the INSERT of start_game_session
insert_game_session(r) ==
    /\ req[r].pc = "insert"
    /\ db' = InsertRow(db, req[r].sid, StateJson(req[r].inst))
    /\ req' = [req EXCEPT ![r].pc = "return"]
    /\ UNCHANGED <<catalog, started, nextSid, resp, applied, accepted, finished, nReq>>

\* POST /questions up to the UPDATE: the SELECT, then the load, the check of
\* the answer and process_answer, which read nothing but the row selected
submit_answer(r, sid, key, answer) ==
    /\ started
    /\ FreeSlot(r)
    /\ nReq < MaxRequests
    /\ nReq' = nReq + 1
    /\ LET got == get_akinator_instance(sid)
           call == "answer"
       IN IF got.code # 200
          THEN req' = [req EXCEPT ![r] = Raised(got.code, sid, call)]
          ELSE IF ~AnswerAccepted(answer)
          THEN req' = [req EXCEPT ![r] = Raised(400, sid, call)]
          ELSE LET w == valid_answers[Lower(answer)]
                   st == process_answer(got.inst, key, w)
               IN req' = [req EXCEPT ![r] =
                        [pc |-> "save", kind |-> call, sid |-> sid, inst |-> st,
                         body |-> GameResponse(st),
                         op |-> [op |-> "answer", key |-> key, weight |-> w, name |-> ""],
                         base |-> applied[sid], code |-> 200]]
    /\ UNCHANGED <<catalog, started, db, nextSid, resp, applied, accepted, finished>>

\* POST /confirm_guess up to the DELETE or the UPDATE
confirm_akinator_guess(r, sid, name, correct) ==
    /\ started
    /\ FreeSlot(r)
    /\ nReq < MaxRequests
    /\ nReq' = nReq + 1
    /\ LET got == get_akinator_instance(sid)
           call == "confirm"
       IN IF got.code # 200
          THEN req' = [req EXCEPT ![r] = Raised(got.code, sid, call)]
          ELSE IF correct
          THEN req' = [req EXCEPT ![r] =
                        [pc |-> "delete", kind |-> call, sid |-> sid, inst |-> got.inst,
                         body |-> [status |-> "finished_won", guess |-> name,
                                   question |-> "",
                                   top_candidates |-> TopCandidates(got.inst, topN)],
                         op |-> NoOp, base |-> applied[sid], code |-> 200]]
          ELSE LET st == process_mistaken_guess(got.inst, name)
               IN req' = [req EXCEPT ![r] =
                        [pc |-> "save", kind |-> call, sid |-> sid, inst |-> st,
                         body |-> GameResponse(st),
                         op |-> [op |-> "reject", key |-> "", weight |-> 0, name |-> name],
                         base |-> applied[sid], code |-> 200]]
    /\ UNCHANGED <<catalog, started, db, nextSid, resp, applied, accepted, finished>>

\* save_akinator_state: the UPDATE
save_akinator_state(r) ==
    /\ req[r].pc = "save"
    /\ db' = UpdateRow(db, req[r].sid, StateJson(req[r].inst))
    /\ applied' = IF req[r].sid \in DOMAIN db
                  THEN [applied EXCEPT ![req[r].sid] = Append(req[r].base, req[r].op)]
                  ELSE applied
    /\ req' = [req EXCEPT ![r].pc = "return"]
    /\ UNCHANGED <<catalog, started, nextSid, resp, accepted, finished, nReq>>

\* the DELETE of a confirmed guess
confirm_delete(r) ==
    /\ req[r].pc = "delete"
    /\ db' = DeleteRow(db, req[r].sid)
    /\ finished' = finished \cup {req[r].sid}
    /\ req' = [req EXCEPT ![r].pc = "return"]
    /\ UNCHANGED <<catalog, started, nextSid, resp, applied, accepted, nReq>>

\* the response of a handler leaves, after its last statement and the
\* release of its connection: the JSONResponse returned or the
\* HTTPException raised
send_response(r) ==
    /\ req[r].pc = "return"
    /\ resp' = IF req[r].code = 200
               THEN HandlerReturn(req[r].sid, req[r].body, req[r].kind)
               ELSE Response(req[r].code, req[r].sid, ErrorBody, req[r].kind)
    /\ accepted' = IF req[r].code = 200 /\ req[r].op.op # "none"
                   THEN [accepted EXCEPT ![req[r].sid] = Append(@, req[r].op)]
                   ELSE accepted
    /\ req' = [req EXCEPT ![r] = IdleReq]
    /\ UNCHANGED <<catalog, started, db, nextSid, applied, finished, nReq>>

Next ==
    \/ startup_event
    \/ root
    \/ \E r \in Slots : start_game_session(r)
    \/ \E r \in Slots : insert_game_session(r)
    \/ \E r \in Slots, sid \in SessionIds, key \in AttributeKeys, answer \in Answers :
          submit_answer(r, sid, key, answer)
    \/ \E r \in Slots, sid \in SessionIds, name \in EntityNames, correct \in BOOLEAN :
          confirm_akinator_guess(r, sid, name, correct)
    \/ \E r \in Slots : save_akinator_state(r)
    \/ \E r \in Slots : confirm_delete(r)
    \/ \E r \in Slots : send_response(r)

Spec == Init /\ [][Next]_vars

\* the same handlers driven by clients that wait for each response before
\* sending the next request: no two requests are ever in flight
Quiet == \A r \in Slots : req[r].pc = "idle"

NextSerial ==
    \/ startup_event
    \/ root
    \/ \E r \in Slots : Quiet /\ start_game_session(r)
    \/ \E r \in Slots : insert_game_session(r)
    \/ \E r \in Slots, sid \in SessionIds, key \in AttributeKeys, answer \in Answers :
          Quiet /\ submit_answer(r, sid, key, answer)
    \/ \E r \in Slots, sid \in SessionIds, name \in EntityNames, correct \in BOOLEAN :
          Quiet /\ confirm_akinator_guess(r, sid, name, correct)
    \/ \E r \in Slots : save_akinator_state(r)
    \/ \E r \in Slots : confirm_delete(r)
    \/ \E r \in Slots : send_response(r)

SpecSerial == Init /\ [][NextSerial]_vars

----------------------------------------------------------------------------
(* A process started on a table that already holds a row: game_sessions is *)
(* created with IF NOT EXISTS and outlives the process and its dataset     *)
(* files.  The row of session 1 was written under another deployment.      *)

StaleBlobs ==
    { \* an excluded entity the catalog no longer has
      JsonDumps([get_state(NewGameState) EXCEPT !.excluded = <<4>>]),
      \* an asked question the catalog no longer has
      JsonDumps([get_state(NewGameState) EXCEPT !.asked = <<3>>]),
      \* a malformed turn count
      JsonDumps([get_state(NewGameState) EXCEPT !.turn_count = -1]),
      \* no turn_count member
      SubSeq(StateJson(NewGameState), 1, 3) }

InitStore ==
    /\ catalog = GoodCatalog
    /\ started = FALSE
    /\ db \in [{1} -> StaleBlobs]
    /\ nextSid = 1      \* the /start_game that drew id 1 is counted in nReq
    /\ req = [r \in Slots |-> IdleReq]
    /\ resp = Response(0, 0, ErrorBody, "none")
    /\ applied = [s \in SessionIds |-> <<>>]
    /\ accepted = [s \in SessionIds |-> <<>>]
    /\ finished = {}
    /\ nReq = 1

SpecStore == InitStore /\ [][Next]_vars

----------------------------------------------------------------------------
(* A process started on a table whose row was saved under a smaller        *)
(* dataset: the game of session 1 was played when the files held entities  *)
(* 1 and 2 only, and had one answer (tall, yes) when it was last saved.    *)

ResumedBlob ==
    JsonDumps([scores |-> << <<1, 4>>, <<2, -4>> >>, asked |-> <<1>>,
               excluded |-> <<>>, turn_count |-> 1])

InitResume ==
    /\ catalog = GoodCatalog
    /\ started = FALSE
    /\ db = (1 :> ResumedBlob)
    /\ nextSid = 1      \* the /start_game that drew id 1 is counted in nReq
    /\ req = [r \in Slots |-> IdleReq]
    /\ resp = Response(0, 0, ErrorBody, "none")
    /\ applied = [s \in SessionIds |-> <<>>]
    /\ accepted = [s \in SessionIds |-> <<>>]
    /\ finished = {}
    /\ nReq = 1

SpecResume == InitResume /\ [][Next]_vars

----------------------------------------------------------------------------
(* Properties.                                                             *)

\* the entities whose rejection a session's client was answered with success
Rejected(s) ==
    {accepted[s][i].name : i \in {j \in 1..Len(accepted[s]) : accepted[s][j].op = "reject"}}

AllExcluded(st) == DOMAIN st.scores \subseteq st.excludedEntities

\* slot r takes up a request of this kind for session sid in this step
Arrives(r, sid, kind) ==
    /\ req[r].pc = "idle"
    /\ req'[r].pc # "idle"
    /\ req'[r].kind = kind
    /\ req'[r].sid = sid

\* no request for session s is in flight
Settled(s) == \A r \in Slots : req[r].pc = "idle" \/ req[r].sid # s

\* C1: after any interleaving of requests, once they are all answered, the
\* stored state of a session holds every answer and rejection its clients
\* were answered with success,
\* which is what one in-flight operation per session would guarantee
C1_NoLostUpdate ==
    \A s \in DOMAIN db : Settled(s) => applied[s] = accepted[s]

\* C2: an answer that is none of the four graded levels is not processed:
\* its request raises an error, which is the response it sends, and neither
\* its load nor its response changes any stored row
GradedLevels == {"no", "probably no", "probably yes", "yes"}

C2_InvalidAnswerRejected ==
    /\ [][\A r \in Slots, sid \in SessionIds, key \in AttributeKeys, answer \in Answers :
          ((Arrives(r, sid, "answer") /\ submit_answer(r, sid, key, answer)) /\ Lower(answer) \notin GradedLevels)
          => /\ req'[r] = Raised(req'[r].code, sid, "answer")
             /\ req'[r].code \in {400, 404, 500}
             /\ db' = db
             /\ resp' = resp]_vars
    /\ [][\A r \in Slots :
          (send_response(r) /\ req[r].code # 200)
          => /\ resp' = Response(req[r].code, req[r].sid, ErrorBody, req[r].kind)
             /\ db' = db]_vars

\* a game with two answers stored received an invalid one and answered 400
C2_Witness ==
    /\ resp.code = 400
    /\ resp.sid \in DOMAIN db
    /\ get_akinator_instance(resp.sid).inst.turnCount = 2
    /\ \A r \in Slots : req[r].pc = "idle"

\* C3: an entity whose rejection was accepted is never again in the top
\* candidates returned to the caller, proposed as the guess, or accepted as
\* the confirmed guess
C3_MonotonicExclusion ==
    (resp.code = 200 /\ resp.kind \in {"answer", "confirm"})
    => /\ resp.body.guess \notin Rejected(resp.sid)
       /\ \A i \in 1..Len(resp.body.top_candidates) :
             resp.body.top_candidates[i].name \notin Rejected(resp.sid)

\* C4: the row written by a save or by the start of a game loads, in the
\* next request, as the very state that was saved
C4_RoundTrip ==
    [][/\ \A r \in Slots, sid \in DOMAIN db :
            (save_akinator_state(r) /\ sid = req[r].sid)
            => get_akinator_instance(sid)' = [code |-> 200, inst |-> req[r].inst]
       /\ \A r \in Slots, sid \in SessionIds :
            (insert_game_session(r) /\ sid = req[r].sid)
            => get_akinator_instance(sid)' = [code |-> 200, inst |-> NewGameState]
      ]_vars

\* a stored state with an answer and an exclusion in it loads
C4_Witness ==
    \E s \in DOMAIN db :
        /\ get_akinator_instance(s).code = 200
        /\ get_akinator_instance(s).inst.asked # {}
        /\ get_akinator_instance(s).inst.excludedEntities # {}
        /\ applied[s] # <<>>

\* C5: an answer or a rejection answered with success has its state stored,
\* and one answered with an error changed nothing of the table
C5_AllOrNothing ==
    [][/\ \A r \in Slots :
            save_akinator_state(r)
            => /\ req[r].sid \in DOMAIN db'
               /\ db'[req[r].sid] = StateJson(req[r].inst)
       /\ (resp' # resp /\ resp'.code \in {400, 404, 500}) => db' = db
      ]_vars

\* C6: once a confirmed guess has deleted the row of a session, the session
\* has no row, and every answer or confirmation arriving for it raises 404,
\* is answered 404 without any game state, and changes nothing
C6_ConfirmTerminates ==
    /\ [](finished \cap DOMAIN db = {})
    /\ [][\A r \in Slots, sid \in finished :
            ( \/ \E key \in AttributeKeys, answer \in Answers :
                    (Arrives(r, sid, "answer") /\ submit_answer(r, sid, key, answer))
              \/ \E name \in EntityNames, correct \in BOOLEAN :
                    (Arrives(r, sid, "confirm") /\ confirm_akinator_guess(r, sid, name, correct)) )
            => /\ req'[r] = Raised(404, sid, req'[r].kind)
               /\ db' = db]_vars
    /\ [][\A r \in Slots :
            (send_response(r) /\ req[r].code = 404)
            => /\ resp'.code = 404
               /\ resp'.sid = req[r].sid
               /\ resp'.body = ErrorBody
               /\ db' = db]_vars

\* a request for a finished session was answered 404
C6_Witness ==
    /\ resp.code = 404
    /\ resp.sid \in finished

\* C7: a rejection that leaves every entity excluded is taken to the save,
\* and the response it sends is a 200 whose body is the no_candidates outcome
C7_ExhaustionIsResult ==
    /\ [](\A r \in Slots :
            (req[r].pc = "save" /\ AllExcluded(req[r].inst))
            => req[r].body.status = "no_candidates")
    /\ [][\A r \in Slots :
            (send_response(r) /\ req[r].op.op = "reject" /\ AllExcluded(req[r].inst))
            => /\ resp'.code = 200
               /\ resp'.body.status = "no_candidates"]_vars
    /\ [][\A r \in Slots, sid \in DOMAIN db, name \in EntityNames :
            ((Arrives(r, sid, "confirm") /\ confirm_akinator_guess(r, sid, name, FALSE))
               /\ get_akinator_instance(sid).code = 200)
            => req'[r].pc = "save"]_vars

\* the third rejection of a game was answered with the give-up result
C7_Witness ==
    /\ resp.code = 200
    /\ resp.kind = "confirm"
    /\ resp.body.status = "no_candidates"
    /\ Cardinality(Rejected(resp.sid)) = 3

\* C8: a row that does not load under the catalog raises 500 in every
\* request, which is answered 500; no request goes on with a state made from
\* it, and the row stays as it is
C8_CorruptStateRefused ==
    /\ [](/\ 1 \in DOMAIN db
          /\ db[1] \in StaleBlobs
          /\ \A r \in Slots : req[r].sid = 1 => req[r] = Raised(500, 1, req[r].kind)
          /\ resp.sid = 1 => (resp.code = 500 /\ resp.body = ErrorBody))
    /\ [][\A r \in Slots :
            ( \/ \E key \in AttributeKeys, answer \in Answers :
                    (Arrives(r, 1, "answer") /\ submit_answer(r, 1, key, answer))
              \/ \E name \in EntityNames, correct \in BOOLEAN :
                    (Arrives(r, 1, "confirm") /\ confirm_akinator_guess(r, 1, name, correct)) )
            => /\ req'[r].pc = "return"
               /\ req'[r].code = 500
               /\ db' = db]_vars

\* a request for the session of the stale row was answered 500
C8_Witness ==
    /\ resp.code = 500
    /\ resp.sid = 1
    /\ resp.kind = "confirm"

\* C9: with a catalog that fails validation the process does not start, no
\* request is answered and no session is stored
C9_RefusesToStart ==
    ~ValidCatalog(catalog)
    => /\ ~started
       /\ resp.code = 0
       /\ db = <<>>

\* the number of answers in a history of operations
NumAnswers(h) == Cardinality({i \in 1..Len(h) : h[i].op = "answer"})

AnswersOnly(h) == \A i \in 1..Len(h) : h[i].op = "answer"

\* a fresh game given the operations of h in memory, never saved
RECURSIVE Replay(_)
Replay(h) ==
    IF h = <<>> THEN NewGameState
    ELSE LET before == Replay(SubSeq(h, 1, Len(h) - 1))
             o == h[Len(h)]
         IN IF o.op = "answer" THEN process_answer(before, o.key, o.weight)
            ELSE process_mistaken_guess(before, o.name)

\* the order of the entities in the ranking of a state
RankOrder(st) == RankOf(st.scores, DOMAIN st.scores \ st.excludedEntities)

StoredRank(s) == RankOrder(LoadState(JsonLoads(db[s])))

\* C10: a game that was sent a sequence of answers through the handlers,
\* saved and reloaded at every step, ranks the entities, once every request
\* for it is answered, in the same order
\* as a fresh game given the same sequence in memory, and as every other
\* stored game that was sent the same sequence
C10_Determinism ==
    /\ \A s \in DOMAIN db :
          (Settled(s) /\ AnswersOnly(accepted[s]))
          => StoredRank(s) = RankOrder(Replay(accepted[s]))
    /\ \A s, t \in DOMAIN db :
          (Settled(s) /\ Settled(t) /\ AnswersOnly(accepted[s]) /\ accepted[s] = accepted[t])
          => StoredRank(s) = StoredRank(t)

\* C11: for every question, every accepted answer weight and every pair of
\* non-excluded entities e and f, where e's weight for the question equals
\* the answer weight and f's does not, the update does not lower
\* score(e) - score(f); this holds of the update applied to every stored
\* state and of every answer a handler processes
GradedWeight ==
    ("no" :> 0) @@ ("probably no" :> 1) @@ ("probably yes" :> 3) @@ ("yes" :> 4)

Candidates(st) == DOMAIN st.scores \ st.excludedEntities

C11_AgreementNeverDemoted ==
    /\ [](\A s \in DOMAIN db, key \in AttributeKeys, lvl \in GradedLevels :
            LET st == LoadState(JsonLoads(db[s]))
                new == Update(st.scores, st.excludedEntities, key, GradedWeight[lvl])
            IN \A e, f \in Candidates(st) :
                  ( /\ AttributeWeight(e, key) = GradedWeight[lvl]
                    /\ AttributeWeight(f, key) # GradedWeight[lvl] )
                  => new[e] - new[f] >= st.scores[e] - st.scores[f])
    /\ [][\A r \in Slots, sid \in DOMAIN db, key \in AttributeKeys, answer \in Answers :
            ((Arrives(r, sid, "answer") /\ submit_answer(r, sid, key, answer)) /\ req'[r].pc = "save")
            => LET old == get_akinator_instance(sid).inst
                   new == req'[r].inst
               IN \A e, f \in Candidates(old) :
                     ( /\ AttributeWeight(e, key) = GradedWeight[Lower(answer)]
                       /\ AttributeWeight(f, key) # GradedWeight[Lower(answer)] )
                     => new.scores[e] - new.scores[f]
                           >= old.scores[e] - old.scores[f]]_vars

\* a handler processed "yes" for tall, which is entity 1's weight and not
\* entity 2's, and entity 1 is now ahead of entity 2
C11_Witness ==
    \E r \in Slots :
        /\ req[r].pc = "save"
        /\ req[r].op.op = "answer"
        /\ req[r].op.key = "tall"
        /\ req[r].op.weight = 4
        /\ req[r].inst.scores[1] > req[r].inst.scores[2]

\* the first k operations of a history
Prefix(h, k) == SubSeq(h, 1, k)

\* the questions a game has put to its caller: the prompt of each state its
\* row has held
Prompts(s) ==
    {GameResponse(Replay(Prefix(applied[s], k))).question : k \in 0..Len(applied[s])}
    \ {""}

\* every answer of h carries the weight of entity t for its question
AgreesWith(h, t) ==
    \A i \in 1..Len(h) :
        h[i].op = "answer" /\ h[i].weight = AttributeWeight(t, h[i].key)

\* C12: in a game where every answer is for a question the game asked and
\* carries the weight of one target entity, the response to the
\* maxTurns-th answer is a guess
C12_GuessWithinMaxTurns ==
    [][\A r \in Slots, sid \in SessionIds, t \in EntityIds :
          (/\ send_response(r)
           /\ req[r].sid = sid
           /\ req[r].op.op = "answer"
           /\ req[r].op.key = GameResponse(Replay(req[r].base)).question
           /\ \A i \in 1..Len(accepted[sid]) : accepted[sid][i].key \in Prompts(sid)
           /\ AgreesWith(Append(accepted[sid], req[r].op), t)
           /\ NumAnswers(accepted[sid]) + 1 >= maxTurns)
          => resp'.body.status = "guess"]_vars

\* the phase of a stored game, as its last response told the client:
\* "question" is ASKING, "guess" is GUESSING, "no_candidates" is the
\* exhaustion terminal; WON is a deleted row
Phase(sid) == GameResponse(get_akinator_instance(sid).inst).status

\* C13: an answer is accepted only while the game is ASKING, a confirmation
\* or rejection only while it is GUESSING, and nothing changes a game that
\* is WON or NO_CANDIDATES
C13_StateMachine ==
    /\ [](finished \cap DOMAIN db = {})
    /\ [][\A r \in Slots, sid \in DOMAIN db :
            /\ (\E key \in AttributeKeys, answer \in Answers :
                   (Arrives(r, sid, "answer") /\ submit_answer(r, sid, key, answer)) /\ req'[r].pc = "save")
               => Phase(sid) = "question"
            /\ (\E name \in EntityNames, correct \in BOOLEAN :
                   (Arrives(r, sid, "confirm") /\ confirm_akinator_guess(r, sid, name, correct))
                      /\ req'[r].pc \in {"save", "delete"})
               => Phase(sid) = "guess"
            /\ Phase(sid) = "no_candidates"
               => (sid \in DOMAIN db' /\ db'[sid] = db[sid])]_vars

\* the three triggers, each stated on its own
MarginTrigger(st) ==
    \E e \in Candidates(st) :
        /\ Candidates(st) # {e}
        /\ \A f \in Candidates(st) \ {e} : st.scores[e] - st.scores[f] >= marginThreshold

NoQuestionTrigger(st) ==
    \A q \in QuestionIds \ st.asked :
        \A e, f \in Candidates(st) :
            AttributeWeight(e, QuestionById(q).key) = AttributeWeight(f, QuestionById(q).key)

TurnTrigger(st) == st.turnCount >= maxTurns

\* C14: a guess is proposed exactly when the margin, the lack of a
\* discriminating question or the turn ceiling triggers it, and so the
\* response to the maxTurns-th answer of a game, and to every later one,
\* is never another question
C14_GuessByMaxTurns ==
    /\ [](\A r \in Slots :
            (req[r].op.op # "none" /\ Candidates(req[r].inst) # {})
            => (req[r].body.status = "guess"
                <=> (MarginTrigger(req[r].inst) \/ NoQuestionTrigger(req[r].inst)
                     \/ TurnTrigger(req[r].inst))))
    /\ [][\A r \in Slots, sid \in SessionIds :
            (/\ send_response(r)
             /\ req[r].sid = sid
             /\ req[r].op.op = "answer"
             /\ NumAnswers(accepted'[sid]) >= maxTurns)
            => resp'.body.status # "question"]_vars

\* the asked set of a stored row
StoredAsked(table, s) == LoadState(JsonLoads(table[s])).asked

\* C15: every accepted answer is for a question that was not in asked and is
\* in asked afterwards, no operation takes a question out of the stored asked
\* set, and no question returned to the caller is one already asked
C15_NoQuestionReused ==
    [][/\ \A r \in Slots, sid \in DOMAIN db, key \in AttributeKeys, answer \in Answers :
             ((Arrives(r, sid, "answer") /\ submit_answer(r, sid, key, answer)) /\ req'[r].pc = "save")
             => /\ QuestionIdOf(key) \notin get_akinator_instance(sid).inst.asked
                /\ QuestionIdOf(key) \in req'[r].inst.asked
       /\ \A s \in DOMAIN db \cap DOMAIN db' :
             StoredAsked(db, s) \subseteq StoredAsked(db', s)
       /\ \A r \in Slots :
             (send_response(r) /\ resp'.body.status = "question")
             => QuestionIdOf(resp'.body.question) \notin req[r].inst.asked]_vars

\* every entity that is not excluded has a score
ScoresComplete(st) == EntityIds \ st.excludedEntities \subseteq DOMAIN st.scores

StoredTurnCount(table, s) == LoadState(JsonLoads(table[s])).turnCount

\* C17: the stored turnCount of a game, once every request for it is
\* answered, is the number of its answers that were answered with success; it is 0 at the start, one more after an
\* accepted answer, and unchanged by an invalid answer, by a rejection and by
\* saving and reloading
C17_TurnCountIsAnswers ==
    /\ [](\A s \in DOMAIN db :
            Settled(s) => StoredTurnCount(db, s) = NumAnswers(accepted[s]))
    /\ [][/\ \A s \in DOMAIN db' \ DOMAIN db : StoredTurnCount(db', s) = 0
          /\ \A r \in Slots, sid \in DOMAIN db, key \in AttributeKeys, answer \in Answers :
                (Arrives(r, sid, "answer") /\ submit_answer(r, sid, key, answer))
                => IF req'[r].pc = "save"
                   THEN req'[r].inst.turnCount = StoredTurnCount(db, sid) + 1
                   ELSE req'[r].pc = "return" /\ req'[r].code # 200 /\ db' = db
          /\ \A r \in Slots, sid \in DOMAIN db, name \in EntityNames :
                ((Arrives(r, sid, "confirm") /\ confirm_akinator_guess(r, sid, name, FALSE)) /\ req'[r].pc = "save")
                => req'[r].inst.turnCount = StoredTurnCount(db, sid)
          /\ \A r \in Slots, sid \in DOMAIN db :
                (save_akinator_state(r) /\ req[r].sid = sid)
                => StoredTurnCount(db', sid) = req[r].inst.turnCount]_vars

\* C18: an answer or a confirmation for a session without a row, whether
\* never started or already finished, raises 404 and is answered 404, and
\* changes nothing: no row is created or changed by its load or by its
\* response, and the request is over once the response has left;
\* the UPDATE of a request whose row was deleted meanwhile creates no row
C18_UnknownSessionNotFound ==
    [][/\ \A r \in Slots, sid \in SessionIds \ DOMAIN db :
             (\/ \E key \in AttributeKeys, answer \in Answers :
                    (Arrives(r, sid, "answer") /\ submit_answer(r, sid, key, answer))
              \/ \E name \in EntityNames, correct \in BOOLEAN :
                    (Arrives(r, sid, "confirm") /\ confirm_akinator_guess(r, sid, name, correct)))
             => /\ req'[r] = Raised(404, sid, req'[r].kind)
                /\ db' = db
                /\ nextSid' = nextSid
       /\ \A r \in Slots :
             (send_response(r) /\ req[r].code = 404)
             => /\ resp' = Response(404, req[r].sid, ErrorBody, req[r].kind)
                /\ db' = db
                /\ nextSid' = nextSid
                /\ req'[r] = IdleReq
       /\ \A r \in Slots :
             (save_akinator_state(r) /\ req[r].sid \notin DOMAIN db) => db' = db]_vars

\* a request for a finished session was answered 404 while the row of
\* another game is in the store
C18_Witness ==
    /\ resp.code = 404
    /\ resp.sid \in finished
    /\ DOMAIN db # {}

\* the row of a session, or the empty text when it has none
RowOf(table, s) == IF s \in DOMAIN table THEN table[s] ELSE <<>>

\* the session a step acts for: the one of the request that runs its
\* INSERT, UPDATE or DELETE
Acting ==
    {req[r].sid : r \in {q \in Slots : /\ req[q].pc \in {"insert", "save", "delete"}
                                        /\ req'[q].pc = "return"}}

\* C19: a step taken for one session leaves the row of every other session
\* as it was, present or absent, whatever requests are in flight
C19_SessionIsolation ==
    [][/\ \A s \in SessionIds \ Acting : RowOf(db', s) = RowOf(db, s)
       /\ Cardinality(Acting) <= 1]_vars

\* two games are stored, each written by a request of its own, with
\* different states
C19_Witness ==
    /\ DOMAIN db = {1, 2}
    /\ applied[1] # <<>>
    /\ applied[2] # <<>>
    /\ db[1] # db[2]

\* C20: a rejection adds exactly the rejected entity to the exclusion set of
\* the state it was applied to and leaves asked, turnCount and every other
\* score as they were; the guess it returns, if any, is the highest-ranked
\* entity that is not excluded; that state and that response are what the
\* request saves and returns
C20_RejectOnlyExcludes ==
    [][/\ \A r \in Slots, sid \in DOMAIN db, name \in EntityNames :
             ((Arrives(r, sid, "confirm") /\ confirm_akinator_guess(r, sid, name, FALSE)) /\ req'[r].pc = "save")
             => LET old == get_akinator_instance(sid).inst
                    new == req'[r].inst
                    out == req'[r].body
                IN /\ new.excludedEntities = old.excludedEntities \cup {EntityIdOf(name)}
                   /\ new.asked = old.asked
                   /\ new.turnCount = old.turnCount
                   /\ DOMAIN new.scores = DOMAIN old.scores
                   /\ \A e \in DOMAIN old.scores \ {EntityIdOf(name)} :
                         new.scores[e] = old.scores[e]
                   /\ out.status = "guess"
                      => /\ EntityIdOf(out.guess) \in Candidates(new)
                         /\ \A f \in Candidates(new) \ {EntityIdOf(out.guess)} :
                               Before(new.scores, EntityIdOf(out.guess), f)
                   /\ out.status = "no_candidates" <=> Candidates(new) = {}
       /\ \A r \in Slots, sid \in DOMAIN db :
             (save_akinator_state(r) /\ req[r].sid = sid /\ req[r].op.op = "reject")
             => /\ get_akinator_instance(sid)'.code = 200
                /\ LoadState(JsonLoads(db'[sid])) = req[r].inst
                /\ req'[r].body = req[r].body
       /\ \A r \in Slots :
             (send_response(r) /\ req[r].op.op = "reject")
             => /\ resp'.code = 200
                /\ resp'.body = req[r].body]_vars

\* after two answers the guess A was rejected: the stored state excludes A
\* only, still counts two turns, and the response proposes another entity
C20_Witness ==
    /\ resp.kind = "confirm"
    /\ resp.code = 200
    /\ resp.body.status = "guess"
    /\ resp.body.guess # "A"
    /\ resp.sid \in DOMAIN db
    /\ get_akinator_instance(resp.sid).inst.excludedEntities = {1}
    /\ get_akinator_instance(resp.sid).inst.turnCount = 2

====
